---- MODULE Spec2Model ----
(***************************************************************************)
(* Model of uio-buffer's InputBuffer (src/src/input_buffer.rs): a byte     *)
(* buffer over caller-supplied storage with a fill cursor and a sticky     *)
(* overflow flag.  Slices are sequences, so the source's index i is the    *)
(* sequence position i + 1.                                                *)
(***************************************************************************)
EXTENDS Integers, Sequences, FiniteSets, TLC

\* ------------------------------------------------------------------ bounds
MaxCap == 2
MaxByte == 1
MaxValues == 3
MaxOutput == 2
MaxResize == 3
MaxCalls == 3
MaxPushes == 4

Byte == 0..MaxByte

Slices(n) == UNION {[1..k -> Byte] : k \in 0..n}

\* zero-filled storage, as in `[0u8; n]`
Zeroed(n) == [i \in 1..n |-> 0]

Storages == UNION {[1..k -> Byte] : k \in 0..MaxCap}

\* ------------------------------------------------------------------- state
VARIABLES
    buffer,          \* InputBuffer::buffer, the borrowed storage
    next_input_pos,  \* InputBuffer::next_input_pos
    overflow,        \* InputBuffer::overflow
    panicked,        \* a bounds check, length check or subtraction failed
    op,              \* the method called last
    arg,             \* its argument (for consume: output as passed in)
    ret,             \* its return value
    output,          \* consume's output slice after the call
    pre,             \* the fields of the InputBuffer before the call
    calls,           \* log of the calls made (kept by the logging actions)
    unsatisfied,     \* an append fell short since construction or the last clear
    fresh,           \* a second InputBuffer, newly constructed (lockstep actions)
    paired,          \* fresh is being driven by the same calls as this buffer
    agree            \* the last call returned the same on both buffers

vars == <<buffer, next_input_pos, overflow, panicked, op, arg, ret, output, pre, calls,
          unsatisfied, fresh, paired, agree>>

Self == [buffer |-> buffer, next_input_pos |-> next_input_pos, overflow |-> overflow]

\* ------------------------------------------------- slice primitives (core)
\* slice.split_at(mid) / split_at_mut(mid); panics when mid > len
split_at(s, mid) == <<SubSeq(s, 1, mid), SubSeq(s, mid + 1, Len(s))>>

\* slice.copy_within(start..end, dest); panics when the range or the
\* destination runs past the end
copy_within(s, start, end, dest) ==
    [i \in 1..Len(s) |->
        IF i > dest /\ i <= dest + (end - start) THEN s[start + (i - dest)] ELSE s[i]]

\* ----------------------------------------------------------------- methods
capacity(self) == Len(self.buffer)

len(self) == self.next_input_pos

is_empty(self) == self.next_input_pos = 0

overflown(self) == self.overflow

write_area_filled(self) == split_at(self.buffer, self.next_input_pos)[1]

write_area(self) == split_at(self.buffer, self.next_input_pos)[2]

new_full(storage) == [buffer |-> storage, next_input_pos |-> Len(storage), overflow |-> FALSE]

new(storage) == [buffer |-> storage, next_input_pos |-> 0, overflow |-> FALSE]

Panic(self) == [self |-> self, ret |-> "panic", output |-> <<>>, panic |-> TRUE]

push_no_advance(self, value) ==
    IF self.next_input_pos < capacity(self)
    THEN [self |-> [self EXCEPT !.buffer[self.next_input_pos + 1] = value],
          ret |-> "Ok", output |-> <<>>, panic |-> FALSE]
    ELSE [self |-> [self EXCEPT !.overflow = TRUE],
          ret |-> "Overflow", output |-> <<>>, panic |-> FALSE]

push_no_flag(self, value) ==
    IF self.next_input_pos < capacity(self)
    THEN [self |-> [self EXCEPT !.buffer[self.next_input_pos + 1] = value,
                                !.next_input_pos = @ + 1],
          ret |-> "Ok", output |-> <<>>, panic |-> FALSE]
    ELSE [self |-> self,
          ret |-> "Overflow", output |-> <<>>, panic |-> FALSE]

push(self, value) ==
    IF self.next_input_pos < capacity(self)
    THEN [self |-> [self EXCEPT !.buffer[self.next_input_pos + 1] = value,
                                !.next_input_pos = @ + 1],
          ret |-> "Ok", output |-> <<>>, panic |-> FALSE]
    ELSE [self |-> [self EXCEPT !.overflow = TRUE],
          ret |-> "Overflow", output |-> <<>>, panic |-> FALSE]

push_multiple_strict(self, values) ==
    IF capacity(self) < len(self) THEN Panic(self)
    ELSE
    LET available_space == capacity(self) - len(self)
        filled == split_at(self.buffer, self.next_input_pos)[1]
    IN  IF Len(values) < available_space
        THEN IF self.next_input_pos > Len(self.buffer)
                \/ Len(values) > Len(write_area(self))
             THEN Panic(self)
             ELSE LET area == split_at(write_area(self), Len(values))
                  IN  [self |-> [self EXCEPT !.buffer = filled \o values \o area[2],
                                             !.next_input_pos = @ + Len(values)],
                       ret |-> Len(values), output |-> <<>>, panic |-> FALSE]
        ELSE IF self.next_input_pos > Len(self.buffer)
                \/ available_space > Len(values)
                \/ Len(write_area(self)) # Len(split_at(values, available_space)[1])
             THEN Panic(self)
             ELSE [self |-> [self EXCEPT !.buffer = filled \o split_at(values, available_space)[1],
                                        !.overflow = TRUE],
                   ret |-> available_space, output |-> <<>>, panic |-> FALSE]

push_multiple_assign(self, values) ==
    IF capacity(self) < len(self) THEN Panic(self)
    ELSE
    LET available_space == capacity(self) - len(self)
        filled == split_at(self.buffer, self.next_input_pos)[1]
    IN  IF Len(values) <= available_space
        THEN IF self.next_input_pos > Len(self.buffer)
                \/ Len(values) > Len(write_area(self))
             THEN Panic(self)
             ELSE LET area == split_at(write_area(self), Len(values))
                  IN
                      [self |-> [self EXCEPT !.buffer = filled \o values \o area[2],
                                             !.next_input_pos = Len(values)],
                       ret |-> Len(values), output |-> <<>>, panic |-> FALSE]
        ELSE IF self.next_input_pos > Len(self.buffer)
                \/ available_space > Len(values)
                \/ Len(write_area(self)) # Len(split_at(values, available_space)[1])
             THEN Panic(self)
             ELSE
                  [self |-> [self EXCEPT !.buffer = filled \o split_at(values, available_space)[1],
                                        !.overflow = TRUE],
                   ret |-> available_space, output |-> <<>>, panic |-> FALSE]

push_multiple(self, values) ==
    IF capacity(self) < len(self) THEN Panic(self)    \* usize subtraction
    ELSE
    LET available_space == capacity(self) - len(self)
        filled == split_at(self.buffer, self.next_input_pos)[1]
    IN  IF Len(values) <= available_space
        THEN IF self.next_input_pos > Len(self.buffer)        \* write_area's split
                \/ Len(values) > Len(write_area(self))         \* split_at_mut
             THEN Panic(self)
             ELSE LET area == split_at(write_area(self), Len(values))
                  IN  \* copy_from_slice: area[1] and values have one length
                      [self |-> [self EXCEPT !.buffer = filled \o values \o area[2],
                                             !.next_input_pos = @ + Len(values)],
                       ret |-> Len(values), output |-> <<>>, panic |-> FALSE]
        ELSE IF self.next_input_pos > Len(self.buffer)        \* write_area's split
                \/ available_space > Len(values)               \* values.split_at
                \/ Len(write_area(self)) # Len(split_at(values, available_space)[1])
             THEN Panic(self)
             ELSE \* next_input_pos is not advanced on this path
                  [self |-> [self EXCEPT !.buffer = filled \o split_at(values, available_space)[1],
                                        !.overflow = TRUE],
                   ret |-> available_space, output |-> <<>>, panic |-> FALSE]

resize_no_min(self, new_size) ==
    [self |-> [self EXCEPT !.next_input_pos = new_size],
     ret |-> "unit", output |-> <<>>, panic |-> FALSE]

resize_clears_flag(self, new_size) ==
    [self |-> [self EXCEPT !.next_input_pos = IF new_size < capacity(self) THEN new_size
                                               ELSE capacity(self),
                           !.overflow = FALSE],
     ret |-> "unit", output |-> <<>>, panic |-> FALSE]

resize_erases(self, new_size) ==
    LET n == IF new_size < capacity(self) THEN new_size ELSE capacity(self)
    IN  [self |-> [self EXCEPT !.next_input_pos = n,
                               !.buffer = [i \in 1..Len(self.buffer) |->
                                              IF i > n THEN 0 ELSE self.buffer[i]]],
         ret |-> "unit", output |-> <<>>, panic |-> FALSE]

resize(self, new_size) ==
    [self |-> [self EXCEPT !.next_input_pos = IF new_size < capacity(self) THEN new_size
                                               ELSE capacity(self)],
     ret |-> "unit", output |-> <<>>, panic |-> FALSE]

clear_keep_flag(self) ==
    [self |-> [self EXCEPT !.next_input_pos = 0],
     ret |-> "unit", output |-> <<>>, panic |-> FALSE]

clear(self) ==
    [self |-> [self EXCEPT !.next_input_pos = 0, !.overflow = FALSE],
     ret |-> "unit", output |-> <<>>, panic |-> FALSE]

consume_no_shift(self, out) ==
    LET bytes_to_consume == IF len(self) < Len(out) THEN len(self) ELSE Len(out)
    IN  IF bytes_to_consume = 0
        THEN [self |-> self, ret |-> 0, output |-> out, panic |-> FALSE]
        ELSE IF bytes_to_consume > Len(self.buffer) \/ bytes_to_consume > Len(out)
        THEN Panic(self)
        ELSE
        LET input_area == split_at(self.buffer, bytes_to_consume)[1]
            written == input_area \o split_at(out, bytes_to_consume)[2]
            new_len == len(self) - bytes_to_consume
        IN  [self |-> [self EXCEPT !.next_input_pos = new_len],
             ret |-> bytes_to_consume, output |-> written, panic |-> FALSE]

consume_keep_len(self, out) ==
    LET bytes_to_consume == IF len(self) < Len(out) THEN len(self) ELSE Len(out)
    IN  IF bytes_to_consume = 0
        THEN [self |-> self, ret |-> 0, output |-> out, panic |-> FALSE]
        ELSE IF bytes_to_consume > Len(self.buffer) \/ bytes_to_consume > Len(out)
        THEN Panic(self)
        ELSE
        LET input_area == split_at(self.buffer, bytes_to_consume)[1]
            written == input_area \o split_at(out, bytes_to_consume)[2]
            new_len == len(self) - bytes_to_consume
        IN  IF new_len = 0
            THEN [self |-> self,
                  ret |-> bytes_to_consume, output |-> written, panic |-> FALSE]
            ELSE IF self.next_input_pos > Len(self.buffer)
            THEN Panic(self)
            ELSE [self |-> [self EXCEPT
                               !.buffer = copy_within(self.buffer, bytes_to_consume,
                                                      self.next_input_pos, 0),
                               !.next_input_pos = new_len],
                  ret |-> bytes_to_consume, output |-> written, panic |-> FALSE]

consume_zero_resets(self, out) ==
    LET bytes_to_consume == IF len(self) < Len(out) THEN len(self) ELSE Len(out)
    IN  IF bytes_to_consume = 0
        THEN [self |-> [self EXCEPT !.next_input_pos = 0], ret |-> 0, output |-> out,
              panic |-> FALSE]
        ELSE IF bytes_to_consume > Len(self.buffer)
                \/ bytes_to_consume > Len(out)
        THEN Panic(self)
        ELSE
        LET input_area == split_at(self.buffer, bytes_to_consume)[1]
            written == input_area \o split_at(out, bytes_to_consume)[2]
            new_len == len(self) - bytes_to_consume
        IN  IF new_len = 0
            THEN [self |-> [self EXCEPT !.next_input_pos = 0],
                  ret |-> bytes_to_consume, output |-> written, panic |-> FALSE]
            ELSE IF self.next_input_pos > Len(self.buffer)
            THEN Panic(self)
            ELSE [self |-> [self EXCEPT
                               !.buffer = copy_within(self.buffer, bytes_to_consume,
                                                      self.next_input_pos, 0),
                               !.next_input_pos = new_len],
                  ret |-> bytes_to_consume, output |-> written, panic |-> FALSE]

consume(self, out) ==
    LET bytes_to_consume == IF len(self) < Len(out) THEN len(self) ELSE Len(out)
    IN  IF bytes_to_consume = 0
        THEN [self |-> self, ret |-> 0, output |-> out, panic |-> FALSE]
        ELSE IF bytes_to_consume > Len(self.buffer)     \* buffer.split_at
                \/ bytes_to_consume > Len(out)          \* output.split_at_mut
        THEN Panic(self)
        ELSE
        LET input_area == split_at(self.buffer, bytes_to_consume)[1]
            \* copy_from_slice: output_area and input_area have one length
            written == input_area \o split_at(out, bytes_to_consume)[2]
            new_len == len(self) - bytes_to_consume
        IN  IF new_len = 0
            THEN [self |-> [self EXCEPT !.next_input_pos = 0],
                  ret |-> bytes_to_consume, output |-> written, panic |-> FALSE]
            ELSE IF self.next_input_pos > Len(self.buffer)   \* copy_within range
            THEN Panic(self)
            ELSE [self |-> [self EXCEPT
                               !.buffer = copy_within(self.buffer, bytes_to_consume,
                                                      self.next_input_pos, 0),
                               !.next_input_pos = new_len],
                  ret |-> bytes_to_consume, output |-> written, panic |-> FALSE]

\* ----------------------------------------------------------------- actions
Init ==
    \E storage \in Storages :
        /\ buffer = new(storage).buffer
        /\ next_input_pos = new(storage).next_input_pos
        /\ overflow = new(storage).overflow
        /\ panicked = FALSE
        /\ op = "new"
        /\ arg = storage
        /\ ret = "unit"
        /\ output = <<>>
        /\ pre = new(storage)
        /\ calls = <<>>
        /\ unsatisfied = FALSE
        /\ fresh = new(Zeroed(Len(storage)))
        /\ paired = FALSE
        /\ agree = TRUE

\* the append o(a) with result r was not fully satisfied
Short(o, a, r) ==
    /\ ~r.panic
    /\ \/ o = "push" /\ r.ret = "Overflow"
       \/ o = "push_multiple" /\ r.ret < Len(a)

\* the call o(a) with result r changes the InputBuffer
Apply(o, a, r) ==
    /\ ~panicked
    /\ buffer' = r.self.buffer
    /\ next_input_pos' = r.self.next_input_pos
    /\ overflow' = r.self.overflow
    /\ panicked' = r.panic
    /\ unsatisfied' = IF o = "clear" THEN FALSE ELSE (unsatisfied \/ Short(o, a, r))

\* one completed call o(a) with result r, observed by the caller
Call(o, a, r) ==
    /\ Apply(o, a, r)
    /\ pre' = Self
    /\ op' = o
    /\ arg' = a
    /\ ret' = r.ret
    /\ output' = r.output
    /\ UNCHANGED <<fresh, paired, agree>>

Logged(limit) ==
    /\ Len(calls) < limit
    /\ calls' = Append(calls, [op |-> op', arg |-> arg', ret |-> ret', output |-> output'])

PushStep == \E value \in Byte : Call("push", value, push(Self, value))

PushMultipleStep == \E values \in Slices(MaxValues) :
                        Call("push_multiple", values, push_multiple(Self, values))

ConsumeStep == \E out \in Slices(MaxOutput) : Call("consume", out, consume(Self, out))

Push == PushStep /\ UNCHANGED calls

PushMultiple == PushMultipleStep /\ UNCHANGED calls

Consume == ConsumeStep /\ UNCHANGED calls

Resize == /\ \E new_size \in 0..MaxResize : Call("resize", new_size, resize(Self, new_size))
          /\ UNCHANGED calls

Clear == Call("clear", <<>>, clear(Self)) /\ UNCHANGED calls

Next == Push \/ PushMultiple \/ Consume \/ Resize \/ Clear

Spec == Init /\ [][Next]_vars

\* push, push_multiple and consume only, every call logged
LogPush == PushStep /\ Logged(MaxCalls)

LogPushMultiple == PushMultipleStep /\ Logged(MaxCalls)

LogConsume == ConsumeStep /\ Logged(MaxCalls)

NextFifo == LogPush \/ LogPushMultiple \/ LogConsume

SpecFifo == Init /\ [][NextFifo]_vars

\* push only, every call logged
PushOnly == PushStep /\ Logged(MaxPushes)

NextPush == PushOnly

SpecPush == Init /\ [][NextPush]_vars

\* a collaborator writes bytes at the start of the write area, then commits
\* them with resize(len() + bytes.len())
write_and_resize(self, bytes) ==
    IF self.next_input_pos > Len(self.buffer)          \* write_area's split
       \/ Len(bytes) > Len(write_area(self))           \* the write stays inside the area
    THEN Panic(self)
    ELSE LET filled == split_at(self.buffer, self.next_input_pos)[1]
             area == split_at(write_area(self), Len(bytes))
             written == [self EXCEPT !.buffer = filled \o bytes \o area[2]]
         IN  resize(written, len(self) + Len(bytes))

Commit == /\ \E bytes \in Slices(MaxValues) :
                /\ Len(bytes) <= capacity(Self) - len(Self)
                /\ Call("commit", bytes, write_and_resize(Self, bytes))
          /\ UNCHANGED calls

NextCommit == Push \/ PushMultiple \/ Consume \/ Resize \/ Clear \/ Commit

SpecCommit == Init /\ [][NextCommit]_vars

\* results r and q of one call on two buffers look the same to the caller
Same(r, q) ==
    /\ r.panic = q.panic
    /\ r.panic \/ (r.ret = q.ret /\ (Len(r.output) > 0 =>
                                        SubSeq(r.output, 1, r.ret) = SubSeq(q.output, 1, q.ret)))

\* the call o(a) made on this buffer (result r) and, once paired, on fresh
\* (result q); these actions keep no pre/op/arg/ret/output record
Lockstep(o, a, r, q) ==
    /\ Apply(o, a, r)
    /\ fresh' = IF paired THEN q.self ELSE fresh
    /\ agree' = (paired => Same(r, q))
    /\ UNCHANGED <<paired, pre, op, arg, ret, output, calls>>

ReusePush == \E value \in Byte : Lockstep("push", value, push(Self, value), push(fresh, value))

ReusePushMultiple ==
    \E values \in Slices(MaxValues) :
        Lockstep("push_multiple", values, push_multiple(Self, values),
                 push_multiple(fresh, values))

ReuseConsume ==
    \E out \in Slices(MaxOutput) :
        Lockstep("consume", out, consume(Self, out), consume(fresh, out))

\* resize is not among the calls compared: it ends the pairing
ReuseResize ==
    /\ \E new_size \in 0..MaxResize : Apply("resize", new_size, resize(Self, new_size))
    /\ paired' = FALSE
    /\ agree' = TRUE
    /\ fresh' = new(Zeroed(capacity(Self)))
    /\ UNCHANGED <<pre, op, arg, ret, output, calls>>

\* clear() on this buffer; an unpaired buffer is paired with a newly
\* constructed one over any storage of the same length
ReuseClear ==
    /\ Apply("clear", <<>>, clear(Self))
    /\ IF paired
       THEN fresh' = clear(fresh).self
       ELSE \E storage \in Storages :
                /\ Len(storage) = capacity(Self)
                /\ fresh' = new(storage)
    /\ paired' = TRUE
    /\ agree' = TRUE
    /\ UNCHANGED <<pre, op, arg, ret, output, calls>>

NextReuse == ReusePush \/ ReusePushMultiple \/ ReuseConsume \/ ReuseResize \/ ReuseClear

SpecReuse == Init /\ [][NextReuse]_vars

\* ------------------------------------------------------------ properties
\* space left before the last call
Available == Len(pre.buffer) - pre.next_input_pos

IsPrefix(s, t) == Len(s) <= Len(t) /\ SubSeq(t, 1, Len(s)) = s

\* the bytes the logged appends accepted, in call order
RECURSIVE Accepted(_)
Accepted(log) ==
    IF Len(log) = 0 THEN <<>>
    ELSE LET c == log[Len(log)]
             rest == Accepted(SubSeq(log, 1, Len(log) - 1))
         IN  IF c.op = "push"
             THEN (IF c.ret = "Ok" THEN Append(rest, c.arg) ELSE rest)
             ELSE IF c.op = "push_multiple"
             THEN rest \o SubSeq(c.arg, 1, c.ret)
             ELSE rest

\* the bytes the logged consume calls delivered, in call order
RECURSIVE Delivered(_)
Delivered(log) ==
    IF Len(log) = 0 THEN <<>>
    ELSE LET c == log[Len(log)]
             rest == Delivered(SubSeq(log, 1, Len(log) - 1))
         IN  IF c.op = "consume" THEN rest \o SubSeq(c.output, 1, c.ret) ELSE rest

\* C1: push_multiple(values) with values.len() > available returns
\* available, leaves the buffer full (len() == capacity()), sets the overflow
\* flag and stores the first `available` bytes of values at [old len, capacity).
PushMultipleOverflowFills ==
    (op = "push_multiple" /\ Len(arg) > Available) =>
        /\ ret = Available
        /\ next_input_pos = Len(buffer)
        /\ overflow
        /\ \A i \in 1..Available : buffer[pre.next_input_pos + i] = arg[i]

\* C2: over push, push_multiple and consume calls the delivered bytes are a
\* prefix of the accepted bytes, and they are all of them once a consume into
\* a non-empty output returned 0.
FifoDelivery ==
    /\ IsPrefix(Delivered(calls), Accepted(calls))
    /\ (op = "consume" /\ Len(arg) > 0 /\ ret = 0) => Delivered(calls) = Accepted(calls)

\* C3: consume(output) with 0 < output.len() < len() returns output.len(),
\* copies the front of storage into output, shortens len() by output.len() and
\* moves the surviving bytes to index 0 in order; a further consume returns them.
ConsumeCompacts ==
    (op = "consume" /\ 0 < Len(arg) /\ Len(arg) < pre.next_input_pos) =>
        /\ ret = Len(arg)
        /\ output = SubSeq(pre.buffer, 1, Len(arg))
        /\ next_input_pos = pre.next_input_pos - Len(arg)
        /\ \A i \in 1..next_input_pos : buffer[i] = pre.buffer[i + Len(arg)]
        /\ \A out \in Slices(MaxOutput) :
              LET r == consume(Self, out)
              IN  SubSeq(r.output, 1, r.ret) = SubSeq(pre.buffer, Len(arg) + 1, Len(arg) + r.ret)

ConsumeCompactsWitness ==
    /\ op = "consume" /\ 0 < Len(arg) /\ Len(arg) < pre.next_input_pos
    /\ pre.buffer[1] # pre.buffer[Len(arg) + 1]

\* C4: consume(output) with output.len() >= len() returns the old len(),
\* copies every live byte into output in order and leaves the buffer empty.
ConsumeDrains ==
    (op = "consume" /\ Len(arg) >= pre.next_input_pos) =>
        /\ ret = pre.next_input_pos
        /\ SubSeq(output, 1, ret) = SubSeq(pre.buffer, 1, pre.next_input_pos)
        /\ next_input_pos = 0

ConsumeDrainsWitness ==
    op = "consume" /\ Len(arg) >= pre.next_input_pos /\ pre.next_input_pos = MaxCap

\* C5: push on a full buffer fails with Overflow, sets the overflow flag and
\* leaves len() and every byte of storage as they were.
PushFullOverflows ==
    (op = "push" /\ pre.next_input_pos = Len(pre.buffer)) =>
        /\ ret = "Overflow"
        /\ overflow
        /\ next_input_pos = pre.next_input_pos
        /\ buffer = pre.buffer

PushFullOverflowsWitness ==
    /\ op = "push" /\ pre.next_input_pos = Len(pre.buffer)
    /\ Len(pre.buffer) > 0 /\ ~pre.overflow

\* C6: after k <= capacity push calls on a fresh buffer every push returned Ok,
\* len() is k, the overflow flag is clear and storage[i] is the i-th pushed byte.
PushesWithinCapacity ==
    Len(calls) <= Len(buffer) =>
        /\ \A k \in 1..Len(calls) : calls[k].ret = "Ok" /\ buffer[k] = calls[k].arg
        /\ next_input_pos = Len(calls)
        /\ ~overflow

PushesWithinCapacityWitness ==
    /\ Len(calls) = MaxCap /\ Len(buffer) = MaxCap
    /\ \E k \in 1..Len(calls) : calls[k].arg # calls[1].arg

\* C7: push_multiple(values) with values.len() <= available returns
\* values.len(), grows len() by it, writes values in order at the old len()
\* and leaves the overflow flag as it was.
PushMultipleFits ==
    (op = "push_multiple" /\ Len(arg) <= Available) =>
        /\ ret = Len(arg)
        /\ next_input_pos = pre.next_input_pos + Len(arg)
        /\ \A i \in 1..Len(arg) : buffer[pre.next_input_pos + i] = arg[i]
        /\ overflow = pre.overflow

PushMultipleFitsWitness ==
    /\ op = "push_multiple" /\ Len(arg) <= Available
    /\ Len(arg) > 0 /\ pre.next_input_pos > 0 /\ pre.overflow

\* C8: in every reachable state 0 <= len() <= capacity().
LenWithinCapacity == 0 <= len(Self) /\ len(Self) <= capacity(Self)

LenWithinCapacityWitness ==
    op = "resize" /\ arg > Len(buffer) /\ next_input_pos = Len(buffer) /\ Len(buffer) > 0

\* C9: the overflow flag, once set, stays set over push, push_multiple,
\* consume and resize and is reset only by clear; consume and resize leave it
\* as it was.
OverflowSticky ==
    [][ /\ (op' \in {"consume", "resize"} => overflow' = overflow)
        /\ ((overflow /\ op' # "clear") => overflow')
        /\ ((overflow /\ ~overflow') => op' = "clear") ]_vars

OverflowStickyWitness ==
    op \in {"consume", "resize"} /\ pre.overflow /\ overflow /\ next_input_pos # pre.next_input_pos

\* C10: clear() sets len() to 0 and the overflow flag to false whatever they
\* were, and leaves capacity() as it was.
ClearResets ==
    op = "clear" =>
        /\ len(Self) = 0
        /\ ~overflown(Self)
        /\ capacity(Self) = capacity(pre)

ClearResetsWitness ==
    op = "clear" /\ pre.next_input_pos > 0 /\ pre.overflow

\* C11: resize(n) sets len() to min(n, capacity()), growing or shrinking, and
\* leaves the overflow flag as it was.
ResizeSetsLen ==
    op = "resize" =>
        /\ len(Self) = (IF arg < capacity(pre) THEN arg ELSE capacity(pre))
        /\ overflown(Self) = overflown(pre)

ResizeSetsLenWitness ==
    op = "resize" /\ arg > pre.next_input_pos /\ arg < Len(pre.buffer) /\ pre.overflow

\* C12: push_multiple never fails: it returns min(values.len(), capacity - len)
\* and sets the overflow flag in that call exactly when it returns less than
\* values.len().
PushMultipleNeverFails ==
    op = "push_multiple" =>
        /\ ~panicked
        /\ ret = (IF Len(arg) < Available THEN Len(arg) ELSE Available)
        /\ (ret < Len(arg) => overflow)
        /\ (ret = Len(arg) => overflow = pre.overflow)

PushMultipleNeverFailsWitness ==
    op = "push_multiple" /\ ret < Len(arg) /\ ret > 0 /\ ~pre.overflow /\ pre.next_input_pos > 0

\* C13: a freshly constructed buffer over storage of any length C >= 0 has
\* len() == 0, is_empty(), capacity() == C and the overflow flag clear.
FreshBuffer ==
    op = "new" =>
        /\ len(Self) = 0
        /\ is_empty(Self)
        /\ capacity(Self) = Len(arg)
        /\ ~overflown(Self)

FreshBufferWitness == op = "new" /\ capacity(Self) = MaxCap

\* C14: push and push_multiple never decrease len() and keep it within
\* capacity; consume never increases len() and keeps it at or above 0.
LenMonotone ==
    /\ op \in {"push", "push_multiple"} =>
          (len(pre) <= len(Self) /\ len(Self) <= capacity(Self))
    /\ op = "consume" => (0 <= len(Self) /\ len(Self) <= len(pre))

LenMonotoneWitness ==
    op = "push_multiple" /\ len(pre) > 0 /\ len(Self) > len(pre)

\* C16: consume(output) on an empty buffer or into a zero-length output
\* returns 0 and changes neither len(), the overflow flag, storage nor output.
ConsumeNothing ==
    (op = "consume" /\ (len(pre) = 0 \/ Len(arg) = 0)) =>
        /\ ret = 0
        /\ Self = pre
        /\ output = arg

ConsumeNothingWitness ==
    op = "consume" /\ Len(arg) = 0 /\ len(pre) > 0 /\ pre.overflow

\* C17: clear() and resize(n) leave every byte of storage as it was, so
\* shrinking with resize(m) and resizing back to the old len() gives back the
\* same filled contents.
StorageKept ==
    /\ op \in {"clear", "resize"} => buffer = pre.buffer
    /\ \A m \in 0..len(Self) :
          resize(resize(Self, m).self, len(Self)).self = Self

StorageKeptWitness ==
    /\ op = "clear" /\ len(pre) = MaxCap
    /\ \E i \in 1..Len(buffer) : buffer[i] # 0

\* C18: no operation panics: every index, split, copy length and copy range
\* is within bounds and capacity - len does not underflow.
NoPanic == ~panicked

NoPanicWitness ==
    /\ ~panicked /\ op = "consume" /\ ret > 0 /\ len(Self) > 0
    /\ pre.overflow

\* C15: the write area is storage[len .. capacity); after a collaborator
\* writes k <= capacity - len bytes at its start and calls resize(len + k),
\* len() is the old len() + k and consuming the whole buffer yields the bytes
\* filled before followed by the k written bytes.
WriteAreaCommit ==
    /\ write_area(Self) = SubSeq(buffer, len(Self) + 1, capacity(Self))
    /\ Len(write_area(Self)) = capacity(Self) - len(Self)
    /\ op = "commit" =>
          /\ len(Self) = len(pre) + Len(arg)
          /\ LET r == consume(Self, Zeroed(capacity(Self)))
             IN  /\ r.ret = len(Self)
                 /\ SubSeq(r.output, 1, r.ret) = SubSeq(pre.buffer, 1, len(pre)) \o arg

WriteAreaCommitWitness ==
    /\ op = "commit" /\ len(pre) > 0 /\ Len(arg) > 0
    /\ \E i \in 1..Len(arg) : arg[i] # pre.buffer[len(pre) + i]

\* C19: the overflow flag is set exactly when, since construction or the last
\* clear(), a push returned Overflow or a push_multiple returned fewer bytes
\* than it was given.
OverflowExact == overflown(Self) = unsatisfied

OverflowExactWitness ==
    overflow /\ unsatisfied /\ op = "consume" /\ ret > 0 /\ len(Self) = 0

\* C20: after clear() the buffer and a newly constructed buffer of the same
\* capacity return the same values and consumed bytes and have the same len()
\* and overflow flag after every further push, push_multiple, consume and clear.
ReusableAfterClear ==
    paired =>
        /\ agree
        /\ capacity(Self) = capacity(fresh)
        /\ len(Self) = len(fresh)
        /\ overflown(Self) = overflown(fresh)

ReusableAfterClearWitness ==
    paired /\ agree /\ len(Self) > 0 /\ buffer # fresh.buffer

====
